---- MODULE Spec2Model ----
(***************************************************************************)
(* A model of the transducers library (src/src/lib.rs): function           *)
(* composition (Composed / compose), the Transducer contract and the       *)
(* transduce driver.  The mapping and filtering transducers live in the    *)
(* `transform` module, which lib.rs only declares (`mod transform;`); they *)
(* are modelled from the specification's section 4.3 and 4.4.              *)
(*                                                                         *)
(* Values carry their Rust type: every value is a record [ty, n].  A       *)
(* panic is an unwinding result [panic |-> TRUE, ...]: nothing in lib.rs   *)
(* catches one, so each caller passes it on.                               *)
(***************************************************************************)
EXTENDS Integers, Sequences, FiniteSets, TLC

\* ------------------------------------------------------------------ bounds
\* i32 elements are 0..MaxVal, sources hold at most MaxLen elements, the
\* source's lower-bound size estimate is 0..MaxHint, and each of the two
\* interleaved folds reads at most MaxLen2 elements, each at most MaxVal2.
MaxVal == 3
MaxLen == 3
MaxHint == 2
MaxLen2 == 2
MaxVal2 == 1

\* ------------------------------------------------------------------ values
I32(n) == [ty |-> "i32", n |-> n]
I16(n) == [ty |-> "i16", n |-> n]
U16(n) == [ty |-> "u16", n |-> n]
RefI32(n) == [ty |-> "ref_i32", n |-> n]
SomeI16(n) == [ty |-> "some_i16", n |-> n]
NoneI16 == [ty |-> "none_i16", n |-> 0]
Bool(b) == [ty |-> "bool", n |-> IF b THEN 1 ELSE 0]
Unit == [ty |-> "unit", n |-> 0]

\* The Rust type of a value (both variants of Option<i16> are one type).
TypeOf(v) == IF v.ty \in {"some_i16", "none_i16"} THEN "opt_i16" ELSE v.ty

I32Vals == {I32(n) : n \in 0..MaxVal}
RefVals == {RefI32(n) : n \in 0..MaxVal}
U16Vals == {U16(n) : n \in (0..MaxVal) \cup {32767, 32768, 65535}}
ValsOf(ty) ==
    CASE ty = "i32" -> I32Vals
      [] ty = "ref_i32" -> RefVals
      [] ty = "u16" -> U16Vals
      [] OTHER -> {}

\* A call's outcome: a value, or a panic unwinding out of the callee with
\* its payload err.  calls lists the closures entered, in order.
Ok(v, calls) == [panic |-> FALSE, err |-> "none", val |-> v, calls |-> calls]
Panic(err, calls) == [panic |-> TRUE, err |-> err, val |-> Unit, calls |-> calls]

\* ------------------------------------------------- caller-supplied closures
\* The closures of the tests, and two that panic on 0 (integer division by
\* zero): a transform |x| 12 / x and a predicate |x| 12 % x == 0.
\* With elements in 0..MaxVal no result of these, nor of three of them
\* composed, leaves the range of i32.
Transforms == {"mul2", "add2", "square", "id", "div12", "deref_mul2",
               "cast_u16_i16", "unwrap_or_0"}
Predicates == {"is_even", "not_mult3", "divides12"}

Dom(name) ==
    CASE name \in {"mul2", "add2", "square", "id", "div12"} -> "i32"
      [] name \in {"is_even", "not_mult3", "divides12"} -> "i32"
      [] name = "deref_mul2" -> "ref_i32"
      [] name = "cast_u16_i16" -> "u16"
      [] name = "unwrap_or_0" -> "opt_i16"

Cod(name) ==
    CASE name \in {"mul2", "add2", "square", "id", "div12", "deref_mul2"} -> "i32"
      [] name \in {"is_even", "not_mult3", "divides12"} -> "bool"
      [] name = "cast_u16_i16" -> "opt_i16"
      [] name = "unwrap_or_0" -> "i16"

Closure(name, x) ==
    CASE name = "mul2" -> Ok(I32(x.n * 2), <<name>>)
      [] name = "add2" -> Ok(I32(x.n + 2), <<name>>)
      [] name = "square" -> Ok(I32(x.n * x.n), <<name>>)
      [] name = "id" -> Ok(x, <<name>>)
      [] name = "div12" ->
            IF x.n = 0 THEN Panic("divide by zero", <<name>>)
            ELSE Ok(I32(12 \div x.n), <<name>>)
      [] name = "deref_mul2" -> Ok(I32(x.n * 2), <<name>>)
      [] name = "cast_u16_i16" ->
            Ok(IF x.n <= 32767 THEN SomeI16(x.n) ELSE NoneI16, <<name>>)
      [] name = "unwrap_or_0" ->
            Ok(IF x.ty = "some_i16" THEN I16(x.n) ELSE I16(0), <<name>>)
      [] name = "is_even" -> Ok(Bool(x.n % 2 = 0), <<name>>)
      [] name = "not_mult3" -> Ok(Bool(x.n % 3 # 0), <<name>>)
      [] name = "divides12" ->
            IF x.n = 0 THEN Panic("remainder by zero", <<name>>)
            ELSE Ok(Bool(12 % x.n = 0), <<name>>)

\* -------------------------------------------------------- function values
\* A function value is a closure or a Composed { f, g }.
Fn(name) == [tag |-> "closure", name |-> name]

\* compose(f, g): Composed { f: f, g: g }.
compose(f, g) == [tag |-> "composed", f |-> f, g |-> g]

RECURSIVE App(_, _)
RECURSIVE ComposedCall(_, _)

\* A slip in call: z is taken from y without applying f.
ComposedCallReturnsY(self, x) ==
    App(self.g, x)

\* A slip in call: g is run a second time on its own result when the types
\* allow it (X = Y), before f.
ComposedCallTwiceG(self, x) ==
    LET y == App(self.g, x)
    IN  IF y.panic THEN y
        ELSE LET y2 == IF TypeOf(y.val) = TypeOf(x) THEN App(self.g, y.val)
                       ELSE Ok(y.val, <<>>)
             IN  IF y2.panic THEN [y2 EXCEPT !.calls = y.calls \o y2.calls]
                 ELSE LET z == App(self.f, y2.val)
                      IN  [z EXCEPT !.calls = y.calls \o y2.calls \o z.calls]

\* A slip in call: f is applied to the argument and g to f's result.
ComposedCallFFirst(self, x) ==
    LET y == App(self.f, x)
    IN  IF y.panic THEN y
        ELSE LET z == App(self.g, y.val)
             IN  [z EXCEPT !.calls = y.calls \o z.calls]

\* Composed::call: let y = (self.g)(x); let z = (self.f)(y); z.  A panic in
\* g unwinds before f is entered.
ComposedCall(self, x) ==
    LET y == App(self.g, x)
    IN  IF y.panic THEN y
        ELSE LET z == App(self.f, y.val)
             IN  [z EXCEPT !.calls = y.calls \o z.calls]

\* Calling a function value.
App(fn, x) ==
    IF fn.tag = "closure" THEN Closure(fn.name, x) ELSE ComposedCall(fn, x)

\* The argument type X of a function value.
RECURSIVE FnDom(_)
FnDom(fn) == IF fn.tag = "closure" THEN Dom(fn.name) ELSE FnDom(fn.g)


\* ------------------------------------------------------------ transducers
\* mapping(f) and filtering(p): a transducer holds the one function it was
\* built from.
mapping(f) == [kind |-> "mapping", fn |-> f]
filtering(p) == [kind |-> "filtering", fn |-> p]

\* The functions transducers are built from: the closures, and functions
\* built with compose (one that panics in g, two that panic in f).
TransformFns ==
    {Fn(f) : f \in Transforms}
        \cup {compose(Fn("mul2"), Fn("div12")), compose(Fn("div12"), Fn("mul2"))}
PredicateFns ==
    {Fn(p) : p \in Predicates} \cup {compose(Fn("is_even"), Fn("div12"))}

Transducers ==
    {mapping(f) : f \in TransformFns} \cup {filtering(p) : p \in PredicateFns}

\* The terminal step of transduce.
AppendStep == [tag |-> "append"]

\* mapping(f).apply(step): the step  step'(r, x) = step(r, f(x)).
MappingApply(self, step) == [tag |-> "mapping", fn |-> self.fn, inner |-> step]

\* filtering(p).apply(step): the step  step'(r, x) = if p(x) then step(r, x)
\* else r.
FilteringApply(self, step) == [tag |-> "filtering", fn |-> self.fn, inner |-> step]

\* Transducer::apply(&self, step) -> Self::Step, by the transducer's kind.
TransducerApply(self, step) ==
    IF self.kind = "mapping" THEN MappingApply(self, step)
    ELSE FilteringApply(self, step)

\* A slip in apply: it takes the function out of the transducer (as a
\* `&mut self` or by-value receiver would allow), leaving the identity
\* mapping behind for the next application.
AfterApplyTaken(self) == mapping(Fn("id"))

\* apply borrows the transducer (`&self`) and its Step is an `Fn`: applying
\* it, and calling the step it returns, leave the transducer as it was.
AfterApply(self) == self

\* A slip in append: the element is inserted at the front.
appendFront(r, t) == <<t>> \o r

\* A slip in append: an element equal to the last one is not pushed again.
appendDedup(r, t) == IF r # <<>> /\ r[Len(r)] = t THEN r ELSE Append(r, t)

\* fn append(mut r: Vec<TT>, t: TT) -> Vec<TT> { r.push(t); r }
append(r, t) == Append(r, t)

\* The outcome of one step call: the new accumulator, or a panic (the
\* accumulator moved into the call is dropped by the unwinding).  fcalls are
\* the elements the transducer's function was called with, appends the
\* elements append was called with.
StepOk(acc, fcalls, appends) ==
    [panic |-> FALSE, err |-> "none", acc |-> acc, fcalls |-> fcalls,
     appends |-> appends]
StepPanic(err, fcalls, appends) ==
    [panic |-> TRUE, err |-> err, acc |-> <<>>, fcalls |-> fcalls,
     appends |-> appends]

RECURSIVE StepCall(_, _, _)

\* step'(r, x) = step(r, f(x)): f runs first; its panic unwinds through the
\* step before the inner step is entered.
MappingStep(step, r, x) ==
    LET y == App(step.fn, x)
    IN  IF y.panic THEN StepPanic(y.err, <<x>>, <<>>)
        ELSE LET s == StepCall(step.inner, r, y.val)
             IN  [s EXCEPT !.fcalls = <<x>> \o s.fcalls]

\* step'(r, x) = if p(x) then step(r, x) else r.
FilteringStep(step, r, x) ==
    LET b == App(step.fn, x)
    IN  IF b.panic THEN StepPanic(b.err, <<x>>, <<>>)
        ELSE IF b.val = Bool(TRUE)
             THEN LET s == StepCall(step.inner, r, x)
                  IN  [s EXCEPT !.fcalls = <<x>> \o s.fcalls]
             ELSE StepOk(r, <<x>>, <<>>)

\* Calling a step function value.
StepCall(step, r, x) ==
    CASE step.tag = "append" -> StepOk(append(r, x), <<>>, <<x>>)
      [] step.tag = "mapping" -> MappingStep(step, r, x)
      [] step.tag = "filtering" -> FilteringStep(step, r, x)

\* --------------------------------------------------------------- transduce
\* A slip at line 63: the transducer is never applied, the fold runs append.
EffectiveStepRaw(trans) == AppendStep

\* let step = trans.apply(append);
EffectiveStep(trans) == TransducerApply(trans, AppendStep)

\* A slip at line 67: the vector is created with min_sz default elements
\* (vec![0; min_sz]) instead of with room for min_sz elements.
VecFilled(min_sz) == [i \in 1..min_sz |-> I32(0)]

\* Vec::with_capacity(min_sz): an empty vector, whatever min_sz is.
VecWithCapacity(min_sz) == <<>>

\* A slip at line 68: the source is read from its back.
IterNextBack(iter) ==
    [t |-> iter[Len(iter)], rest |-> SubSeq(iter, 1, Len(iter) - 1)]

\* for t in iter: the next element of a source that has one, and the rest.
IterNext(iter) == [t |-> Head(iter), rest |-> Tail(iter)]

\* A slip at line 69: a panic of the step is caught, the element skipped and
\* the fold goes on with the accumulator it had.
FoldStepCatch(step, state, t) ==
    LET r == StepCall(step, state, t)
    IN  IF r.panic THEN [r EXCEPT !.panic = FALSE, !.err = "none", !.acc = state]
        ELSE r

\* state = step(state, t);
FoldStep(step, state, t) == StepCall(step, state, t)

\* The finite sequences over S of length at most n.
SeqsUpTo(S, n) == UNION {[1..k -> S] : k \in 0..n}

ElemVals(ty) ==
    IF ty = "opt_i16" THEN {SomeI16(n) : n \in 0..MaxVal} \cup {NoneI16}
    ELSE ValsOf(ty)

NoFn == [tag |-> "none"]
NoTrans == [kind |-> "none", fn |-> NoFn]
NoResult == Ok(Unit, <<>>)

VARIABLES
    \* the compose calls: which test ran, its functions and argument, and
    \* the two results
    ctest, cf, cg, ch, cx, lhs, rhs,
    \* one transduce call: its position, arguments and locals, how it ended,
    \* what it returned, and the calls made so far
    pc, trans, source, hint, iter, min_sz, step, state, outcome, err, result,
    fnLog, appendLog, stepLog,
    \* two folds over one transducer: the transducer as constructed and as it
    \* is now, and per fold the source, the rest of it, the step, the
    \* accumulator, the position and how it ended; and the fold that made
    \* the latest step call
    tTrans0, tTrans, tSrc, tIter, tStep, tAcc, tPc, tOut, tLast

composeVars == <<ctest, cf, cg, ch, cx, lhs, rhs>>
transduceVars == <<pc, trans, source, hint, iter, min_sz, step, state, outcome,
                   err, result, fnLog, appendLog, stepLog>>
twoVars == <<tTrans0, tTrans, tSrc, tIter, tStep, tAcc, tPc, tOut, tLast>>
vars == <<composeVars, transduceVars, twoVars>>

InitCompose ==
    /\ ctest = "none"
    /\ cf = NoFn /\ cg = NoFn /\ ch = NoFn
    /\ cx = Unit
    /\ lhs = NoResult /\ rhs = NoResult

InitTransduce ==
    /\ pc = "idle"
    /\ trans = NoTrans
    /\ source = <<>> /\ iter = <<>>
    /\ hint = 0 /\ min_sz = 0
    /\ step = NoFn
    /\ state = <<>>
    /\ outcome = "none"
    /\ err = "none"
    /\ result = <<>>
    /\ fnLog = <<>> /\ appendLog = <<>> /\ stepLog = <<>>

Folds == {1, 2}

InitTwo ==
    /\ tTrans0 = NoTrans /\ tTrans = NoTrans
    /\ tSrc = [i \in Folds |-> <<>>]
    /\ tIter = [i \in Folds |-> <<>>]
    /\ tStep = [i \in Folds |-> NoFn]
    /\ tAcc = [i \in Folds |-> <<>>]
    /\ tPc = [i \in Folds |-> "idle"]
    /\ tOut = [i \in Folds |-> "none"]
    /\ tLast = 0

Init == InitCompose /\ InitTransduce /\ InitTwo

\* ------------------------------------------------- the compose calls
\* compose(f, g)(x), as in compose_typechecks.
TestCompose ==
    /\ ctest = "none"
    /\ \E f \in Transforms, g \in Transforms :
         /\ Cod(g) = Dom(f)
         /\ \E x \in ValsOf(Dom(g)) :
              /\ ctest' = "compose"
              /\ cf' = Fn(f) /\ cg' = Fn(g) /\ ch' = NoFn
              /\ cx' = x
              /\ lhs' = App(compose(Fn(f), Fn(g)), x)
              /\ rhs' = NoResult
    /\ UNCHANGED <<transduceVars, twoVars>>

\* compose(compose(f, g), h)(x) and compose(f, compose(g, h))(x), as in
\* compose_is_associative.
TestAssoc ==
    /\ ctest = "none"
    /\ \E f \in Transforms, g \in Transforms, h \in Transforms :
         /\ Cod(h) = Dom(g) /\ Cod(g) = Dom(f)
         /\ \E x \in ValsOf(Dom(h)) :
              /\ ctest' = "assoc"
              /\ cf' = Fn(f) /\ cg' = Fn(g) /\ ch' = Fn(h)
              /\ cx' = x
              /\ lhs' = App(compose(compose(Fn(f), Fn(g)), Fn(h)), x)
              /\ rhs' = App(compose(Fn(f), compose(Fn(g), Fn(h))), x)
    /\ UNCHANGED <<transduceVars, twoVars>>

\* compose(id, ff)(x) and compose(ff, id)(x), as in compose_with_id_is_id.
TestIdentity ==
    /\ ctest = "none"
    /\ \E f \in Transforms :
         /\ Dom(f) = "i32" /\ Cod(f) = "i32"
         /\ \E x \in I32Vals :
              /\ ctest' = "identity"
              /\ cf' = Fn(f) /\ cg' = Fn("id") /\ ch' = NoFn
              /\ cx' = x
              /\ lhs' = App(compose(Fn("id"), Fn(f)), x)
              /\ rhs' = App(compose(Fn(f), Fn("id")), x)
    /\ UNCHANGED <<transduceVars, twoVars>>

NextCompose == TestCompose \/ TestAssoc \/ TestIdentity

SpecCompose == Init /\ [][NextCompose]_vars

\* ------------------------------------------------------ one transduce call
\* The sources a transducer can be driven over: finite sequences of its
\* input type.  size_hint is the source's own estimate and only advisory (the
\* Iterator contract does not enforce it), so every hint goes with every
\* source.
Call ==
    /\ pc = "idle"
    /\ \E tr \in Transducers :
         \E src \in SeqsUpTo(ElemVals(FnDom(tr.fn)), MaxLen), h \in 0..MaxHint :
            /\ trans' = tr
            /\ source' = src
            /\ iter' = src
            /\ hint' = h
    /\ pc' = "apply"
    /\ outcome' = "running"
    /\ UNCHANGED <<min_sz, step, state, err, result, fnLog, appendLog, stepLog>>
    /\ UNCHANGED <<composeVars, twoVars>>

\* let step = trans.apply(append);
ApplyTrans ==
    /\ pc = "apply"
    /\ step' = EffectiveStep(trans)
    /\ trans' = AfterApply(trans)
    /\ pc' = "alloc"
    /\ UNCHANGED <<source, hint, iter, min_sz, state, outcome, err, result, fnLog,
                   appendLog, stepLog>>
    /\ UNCHANGED <<composeVars, twoVars>>

\* let (min_sz, _) = iter.size_hint();
\* let mut state = Vec::with_capacity(min_sz);
Alloc ==
    /\ pc = "alloc"
    /\ min_sz' = hint
    /\ state' = VecWithCapacity(hint)
    /\ pc' = "loop"
    /\ UNCHANGED <<trans, source, hint, iter, step, outcome, err, result, fnLog,
                   appendLog, stepLog>>
    /\ UNCHANGED <<composeVars, twoVars>>

\* for t in iter { state = step(state, t); }  -- one turn of the loop.  A
\* panic of the step unwinds out of transduce: the accumulator moved into
\* the call and the rest of the source are dropped, nothing is returned.
LoopStep ==
    /\ pc = "loop"
    /\ iter # <<>>
    /\ LET nx == IterNext(iter)
           r == FoldStep(step, state, nx.t)
       IN  /\ iter' = nx.rest
           /\ fnLog' = fnLog \o r.fcalls
           /\ appendLog' = appendLog \o r.appends
           /\ stepLog' = Append(stepLog, [acc |-> state, t |-> nx.t,
                                          panic |-> r.panic, err |-> r.err,
                                          out |-> r.acc])
           /\ state' = r.acc
           /\ err' = r.err
           /\ IF r.panic
              THEN pc' = "done" /\ outcome' = "panicked"
              ELSE pc' = "loop" /\ outcome' = outcome
    /\ UNCHANGED <<trans, source, hint, min_sz, step, result>>
    /\ UNCHANGED <<composeVars, twoVars>>

\* state  -- the source is exhausted and the accumulator is returned.
Return ==
    /\ pc = "loop"
    /\ iter = <<>>
    /\ result' = state
    /\ outcome' = "returned"
    /\ pc' = "done"
    /\ UNCHANGED <<trans, source, hint, iter, min_sz, step, state, err, fnLog,
                   appendLog, stepLog>>
    /\ UNCHANGED <<composeVars, twoVars>>

Next == Call \/ ApplyTrans \/ Alloc \/ LoopStep \/ Return

Spec == Init /\ [][Next]_vars

\* ------------------------------------- two folds over one transducer
\* transduce run to its end on its own: the fold of the step over the source
\* from the empty vector, ended by the first panic.
RECURSIVE FoldAll(_, _, _)
FoldAll(st, acc, s) ==
    IF s = <<>> THEN [outcome |-> "returned", acc |-> acc]
    ELSE LET r == FoldStep(st, acc, Head(s))
         IN  IF r.panic THEN [outcome |-> "panicked", acc |-> <<>>]
             ELSE FoldAll(st, r.acc, Tail(s))

Alone(tr, src) == FoldAll(TransducerApply(tr, AppendStep), VecWithCapacity(0), src)

TwoElems(ty) == {v \in ElemVals(ty) : v.n <= MaxVal2}

\* One transducer is built and two folds are set up, each over its own
\* source.
TwoStart ==
    /\ \A i \in Folds : tPc[i] = "idle"
    /\ \E tr \in Transducers :
         \E s1 \in SeqsUpTo(TwoElems(FnDom(tr.fn)), MaxLen2),
            s2 \in SeqsUpTo(TwoElems(FnDom(tr.fn)), MaxLen2) :
            /\ tTrans0' = tr
            /\ tTrans' = tr
            /\ tSrc' = [i \in Folds |-> IF i = 1 THEN s1 ELSE s2]
            /\ tIter' = [i \in Folds |-> IF i = 1 THEN s1 ELSE s2]
    /\ tPc' = [i \in Folds |-> "apply"]
    /\ tOut' = [i \in Folds |-> "running"]
    /\ UNCHANGED <<tStep, tAcc, tLast>>
    /\ UNCHANGED <<composeVars, transduceVars>>

\* Fold i applies the shared transducer to its own append step and creates
\* its accumulator.
TwoApply(i) ==
    /\ tPc[i] = "apply"
    /\ tStep' = [tStep EXCEPT ![i] = EffectiveStep(tTrans)]
    /\ tTrans' = AfterApply(tTrans)
    /\ tAcc' = [tAcc EXCEPT ![i] = VecWithCapacity(0)]
    /\ tPc' = [tPc EXCEPT ![i] = "loop"]
    /\ UNCHANGED <<tTrans0, tSrc, tIter, tOut, tLast>>
    /\ UNCHANGED <<composeVars, transduceVars>>

\* Fold i makes its next step call.
TwoStep(i) ==
    /\ tPc[i] = "loop"
    /\ tIter[i] # <<>>
    /\ LET nx == IterNext(tIter[i])
           r == FoldStep(tStep[i], tAcc[i], nx.t)
       IN  /\ tIter' = [tIter EXCEPT ![i] = nx.rest]
           /\ tAcc' = [tAcc EXCEPT ![i] = r.acc]
           /\ tPc' = [tPc EXCEPT ![i] = IF r.panic THEN "done" ELSE "loop"]
           /\ tOut' = [tOut EXCEPT ![i] = IF r.panic THEN "panicked" ELSE @]
    /\ tLast' = i
    /\ UNCHANGED <<tTrans0, tTrans, tSrc, tStep>>
    /\ UNCHANGED <<composeVars, transduceVars>>

\* Fold i has read its whole source and ends with its accumulator.
TwoReturn(i) ==
    /\ tPc[i] = "loop"
    /\ tIter[i] = <<>>
    /\ tPc' = [tPc EXCEPT ![i] = "done"]
    /\ tOut' = [tOut EXCEPT ![i] = "returned"]
    /\ UNCHANGED <<tTrans0, tTrans, tSrc, tIter, tStep, tAcc, tLast>>
    /\ UNCHANGED <<composeVars, transduceVars>>

NextTwo ==
    \/ TwoStart
    \/ \E i \in Folds : TwoApply(i)
    \/ \E i \in Folds : TwoStep(i)
    \/ \E i \in Folds : TwoReturn(i)

SpecTwo == Init /\ [][NextTwo]_vars

\* ------------------------------------------------------------- properties
\* What a function does to one value, for stating the properties.
Panics(fn, x) == App(fn, x).panic
ValOf(fn, x) == App(fn, x).val
Holds(p, x) == ~Panics(p, x) /\ ValOf(p, x) = Bool(TRUE)
PanicsAt(fn, v) == {i \in 1..Len(v) : Panics(fn, v[i])}
Min(S) == CHOOSE m \in S : \A n \in S : m <= n

\* C1: the value returned by compose(f, g), called on x, returns f(g(x)):
\* g is entered first, with x, and f second, with g's result (a panic of g
\* ends the call before f is entered).
ComposeAppliesGThenF ==
    ctest = "compose" =>
        LET y == Closure(cg.name, cx)
            z == Closure(cf.name, y.val)
        IN  IF y.panic
            THEN lhs.panic /\ lhs.err = y.err /\ lhs.calls = <<cg.name>>
            ELSE /\ lhs.panic = z.panic
                 /\ lhs.err = z.err
                 /\ lhs.val = z.val
                 /\ lhs.calls = <<cg.name, cf.name>>

\* C1's case: three different types, u16 -> Option<i16> -> i16, on 65535.
ComposeThreeTypesReached ==
    /\ ctest = "compose"
    /\ cf = Fn("unwrap_or_0") /\ cg = Fn("cast_u16_i16")
    /\ cx = U16(65535)
    /\ lhs.val = I16(0)

\* C2: compose(compose(f, g), h)(x) equals compose(f, compose(g, h))(x).
ComposeIsAssociative ==
    ctest = "assoc" =>
        /\ lhs.panic = rhs.panic
        /\ lhs.err = rhs.err
        /\ lhs.val = rhs.val

\* C2's case: f = 2x, g = x + 2, h = x * x on 3 gives 22 both ways.
ComposeAssocReached ==
    /\ ctest = "assoc"
    /\ cf = Fn("mul2") /\ cg = Fn("add2") /\ ch = Fn("square")
    /\ cx = I32(3)
    /\ lhs.val = I32(22) /\ rhs.val = I32(22)

\* C3: compose(id, f)(x) and compose(f, id)(x) both equal f(x).
ComposeIdentityLaw ==
    ctest = "identity" =>
        LET r == Closure(cf.name, cx)
        IN  /\ lhs.panic = r.panic /\ lhs.err = r.err /\ lhs.val = r.val
            /\ rhs.panic = r.panic /\ rhs.err = r.err /\ rhs.val = r.val

\* C3's case: f = 2x on 3 gives 6 under both forms.
ComposeIdentityReached ==
    /\ ctest = "identity"
    /\ cf = Fn("mul2")
    /\ cx = I32(3)
    /\ lhs.val = I32(6) /\ rhs.val = I32(6)

\* C4: transduce(v, mapping(f)), for an f that panics on no element of v,
\* returns a vector as long as v whose i-th element is f(v[i]).
MappingEquivalence ==
    (pc = "done" /\ trans.kind = "mapping" /\ PanicsAt(trans.fn, source) = {}) =>
        /\ outcome = "returned"
        /\ Len(result) = Len(source)
        /\ \A i \in 1..Len(source) : result[i] = ValOf(trans.fn, source[i])

\* C4's case: a mapping whose output type differs from its input type.
MappingTypeChangingReached ==
    /\ pc = "done"
    /\ trans = mapping(Fn("cast_u16_i16"))
    /\ source = <<U16(3), U16(65535), U16(1)>>
    /\ result = <<SomeI16(3), NoneI16, SomeI16(1)>>

\* C5: transduce(v, filtering(p)), for a p that panics on no element of v,
\* returns the subsequence of v of the elements satisfying p, in order and
\* with their multiplicity.
FilteringEquivalence ==
    (pc = "done" /\ trans.kind = "filtering" /\ PanicsAt(trans.fn, source) = {}) =>
        /\ outcome = "returned"
        /\ result = SelectSeq(source, LAMBDA x : Holds(trans.fn, x))

\* C5's case: a repeated element is kept twice, a failing one dropped.
FilteringRepeatedReached ==
    /\ pc = "done"
    /\ trans = filtering(Fn("is_even"))
    /\ source = <<I32(2), I32(2), I32(3)>>
    /\ result = <<I32(2), I32(2)>>

\* C6: on a source that produces nothing, transduce returns the empty vector
\* and calls neither the function or predicate, nor any step.
EmptyInputGivesEmpty ==
    (pc = "done" /\ source = <<>>) =>
        /\ outcome = "returned"
        /\ result = <<>>
        /\ fnLog = <<>>
        /\ appendLog = <<>>
        /\ stepLog = <<>>

\* C6's case: an empty source whose size estimate is not 0 has been run.
EmptyInputReached ==
    /\ pc = "done"
    /\ source = <<>>
    /\ hint > 0
    /\ trans.kind = "filtering"

\* C8: the filtering step leaves the accumulator as it was given on an
\* element failing p and does not enter the wrapped step for it: append is
\* only ever called with elements satisfying p, once per accepted element.
FilteringNeverPassesRejected ==
    trans.kind = "filtering" =>
        /\ \A i \in 1..Len(appendLog) : Holds(trans.fn, appendLog[i])
        /\ \A i \in 1..Len(stepLog) :
              (~stepLog[i].panic /\ ~Holds(trans.fn, stepLog[i].t)) =>
                  stepLog[i].out = stepLog[i].acc
        /\ Len(appendLog) =
              Cardinality({i \in 1..Len(stepLog) : Holds(trans.fn, stepLog[i].t)})

\* C8's case: an element was rejected while the accumulator held something.
FilteringRejectedReached ==
    /\ trans.kind = "filtering"
    /\ \E i \in 1..Len(stepLog) :
          /\ ~Holds(trans.fn, stepLog[i].t)
          /\ stepLog[i].acc # <<>>
          /\ ~stepLog[i].panic

\* C9: the step trans.apply(append) is called once per element pulled from
\* the source, in the source's order, first with the empty vector and then
\* with what the call before returned; what transduce returns is what the
\* last call returned; the size estimate appears nowhere in this.
StepCalledOncePerElementInOrder ==
    pc \in {"loop", "done"} =>
        /\ Len(stepLog) = Len(source) - Len(iter)
        /\ \A i \in 1..Len(stepLog) :
              /\ stepLog[i].t = source[i]
              /\ stepLog[i].acc = (IF i = 1 THEN <<>> ELSE stepLog[i - 1].out)
              /\ LET r == StepCall(TransducerApply(trans, AppendStep),
                                   stepLog[i].acc, stepLog[i].t)
                 IN  stepLog[i].panic = r.panic /\ stepLog[i].out = r.acc
        /\ state = (IF stepLog = <<>> THEN <<>> ELSE stepLog[Len(stepLog)].out)
        /\ (outcome = "returned") =>
              /\ iter = <<>>
              /\ result = state
              /\ result = Alone(trans, source).acc

\* C9's case: a fold of several calls, some of which left the accumulator
\* alone, over a source whose size estimate is neither 0 nor its length.
StepChainReached ==
    /\ pc = "done"
    /\ outcome = "returned"
    /\ Len(stepLog) = 3
    /\ Len(result) = 2
    /\ hint = 1

\* C10: when the function or predicate panics on the k-th element, the call
\* ends with that panic and returns nothing: the accumulator built from the
\* first k-1 elements is dropped, no later element is pulled, and no element
\* is given to the function twice.
PanicEndsTransduce ==
    (pc = "done" /\ PanicsAt(trans.fn, source) # {}) =>
        LET k == Min(PanicsAt(trans.fn, source))
        IN  /\ outcome = "panicked"
            /\ err = App(trans.fn, source[k]).err
            /\ result = <<>>
            /\ state = <<>>
            /\ Len(iter) = Len(source) - k
            /\ Len(stepLog) = k
            /\ stepLog[k].panic
            /\ fnLog = SubSeq(source, 1, k)
            /\ Len(appendLog) <= k - 1

\* C10's case: a panic on the third element, raised inside a composed
\* function, with two elements accumulated.
PanicAfterPartialReached ==
    /\ pc = "done"
    /\ trans.fn.tag = "composed"
    /\ outcome = "panicked"
    /\ Len(source) = 3
    /\ Len(stepLog) = 3
    /\ Len(stepLog[3].acc) = 2

====
